---- MODULE Spec2Model ----
(***************************************************************************)
(* CH341A 8-channel USB relay board driver (src/main.c).                   *)
(*                                                                         *)
(* The module models the ios_handle_t fields, the libusb transport as the  *)
(* program sees it (handles opened and closed, the bulk transfers handed   *)
(* over, the status and byte count each transfer reports) and the inotify  *)
(* event source (the batches read() returns).                              *)
(*                                                                         *)
(* Specifications:                                                         *)
(*   Spec        run_as_daemon: connect loop, initial scan, event loop     *)
(*   SpecLive    Spec with the steps up to the first read() weakly fair    *)
(*   SpecApply   USB_write_IO for every 8-bit mask, called once and again  *)
(*   SpecEncode  one call of send_relay_cmd for every sub-command byte     *)
(*   SpecFold    the event-folding loop of run_as_daemon over one batch    *)
(*   SpecOnce    run_once: the relay numbers given as arguments            *)
(***************************************************************************)
EXTENDS Integers, Sequences, FiniteSets, TLC

VARIABLES
    pc,             \* position of the single thread of control
    active_relays,  \* ios_handle_t.active_relays (uint32_t)
    outputbits,     \* ios_handle_t.outputbits (uint32_t)
    output_pending, \* ios_handle_t.output_pending
    device_handle,  \* ios_handle_t.device_handle (NULL or a handle id)
    usb_context,    \* ios_handle_t.usb_context (NULL or a context)
    live,           \* transport: handles opened and not yet closed
    nhandles,       \* transport: number of handles opened so far
    wire,           \* transport: bulk transfers handed over by the last call, emptied when read() returns
    resps,          \* transport: what each of those transfers reported
    rv,             \* return value of the last USB_write_IO / send_relay_cmd
    cmd,            \* argument of send_relay_cmd (SpecEncode)
    batch,          \* events returned by the last read() on the inotify descriptor, until they are dead
    length,         \* sign of the value returned by that read(): -1 error, else number of events
    i,              \* number of events of the batch already walked over
    pre_batch,      \* active_relays when that read() returned
    scanned,        \* pins n whose file D_OUT_n existed at the initial scan
    rounds,         \* number of read() calls that have returned
    applies,        \* USB_write_IO calls since the last read() returned
    tries,          \* USB_open_device calls made by the connect loop
    argv,           \* the relay arguments argv[optind..argc-1] of run_once
    rc              \* the value main returns to the shell

vars == <<pc, active_relays, outputbits, output_pending, device_handle, usb_context,
          live, nhandles, wire, resps, rv, cmd, batch, length, i,
          pre_batch, scanned, rounds, applies, tries, argv, rc>>

(***************************************************************************)
(* Bounds of the model                                                     *)
(***************************************************************************)
\* events in one batch returned by read() (Spec)
MaxBatch == 2
\* events in one batch (SpecFold)
MaxFoldBatch == 2
\* batches the daemon reads
MaxRounds == 2
\* failed USB_open_device calls of the connect loop
MaxTries == 1
\* marker files present at the initial scan
MaxFiles == 1

(***************************************************************************)
(* Program constants                                                       *)
(***************************************************************************)
NULL == 0
FIRST_PIN == 1
LAST_PIN == 8
endpointid == 2
BufSize == 32
TransferTimeout == 100
cmd_part1 == <<161, 106, 31, 0, 16>>
cmd_part2 == <<63, 0, 0, 0, 0>>

UINT8 == 256

(***************************************************************************)
(* Fixed-width integer arithmetic                                          *)
(*                                                                         *)
(* A uint32_t (active_relays) is the set of the positions of its 1 bits,   *)
(* a uint8_t a number in 0..255.                                           *)
(***************************************************************************)
WordBits == 32

Pow2(n) == 2 ^ n

Bit(x, b) == (x \div Pow2(b)) % 2

\* x & y on 8-bit values
RECURSIVE AndBits(_, _, _)
AndBits(x, y, b) ==
    IF b < 0 THEN 0
    ELSE (IF Bit(x, b) = 1 /\ Bit(y, b) = 1 THEN Pow2(b) ELSE 0) + AndBits(x, y, b - 1)

BitAnd(x, y) == AndBits(x, y, 7)

\* the value of bits 0..b of the word w
RECURSIVE LowValue(_, _)
LowValue(w, b) ==
    IF b < 0 THEN 0
    ELSE (IF b \in w THEN Pow2(b) ELSE 0) + LowValue(w, b - 1)

\* (uint8_t) w
ToUint8(w) == LowValue(w, 7) % UINT8

(***************************************************************************)
(* The transport as the program sees it                                    *)
(***************************************************************************)
\* what one libusb_bulk_transfer call reports: its status and *actual_length
OkResp == [status |-> 0, actual_length |-> 11]

\* unplugged device, timeout after a partial write, short write, timeout
\* reported although every byte went out
BadResps ==
    { [status |-> -4, actual_length |-> 0],
      [status |-> -7, actual_length |-> 5],
      [status |-> 0, actual_length |-> 10],
      [status |-> -7, actual_length |-> 11] }

(***************************************************************************)
(* send_relay_cmd                                                          *)
(***************************************************************************)
\* memcpy(buf + off, src, sizeof src)
Memcpy(buf, off, src) ==
    [j \in 1..Len(buf) |->
        IF j > off /\ j <= off + Len(src) THEN src[j - off] ELSE buf[j]]

\* the sub-command stored one byte early, over the last byte of cmd_part1
BuildFrame_CmdOneEarly(c) ==
    LET n == Len(cmd_part1)
        buf0 == [j \in 1..BufSize |-> 0]
        buf1 == Memcpy(buf0, 0, cmd_part1)
        buf2 == [buf1 EXCEPT ![n] = c]
    IN  Memcpy(buf2, n + 1, cmd_part2)

\* buf after lines 67-74
BuildFrame(c) ==
    LET n == Len(cmd_part1)
        buf0 == [j \in 1..BufSize |-> 0]
        buf1 == Memcpy(buf0, 0, cmd_part1)
        buf2 == [buf1 EXCEPT ![n + 1] = c]
    IN  Memcpy(buf2, n + 1, cmd_part2)

\* the arguments of libusb_bulk_transfer: the first numbytes bytes of buf go out
Transfer(c) ==
    LET numbytes == Len(cmd_part1) + Len(cmd_part2) + 1
    IN  [endpoint |-> endpointid,
         data     |-> SubSeq(BuildFrame(c), 1, numbytes),
         timeout  |-> TransferTimeout]

\* send_relay_cmd's transfer for each value of its uint8_t argument
TransferOf == [c \in 0..(UINT8 - 1) |-> Transfer(c)]

\* return value of send_relay_cmd given what the transfer reported
send_relay_cmd(c, resp) ==
    LET numbytes == Len(cmd_part1) + Len(cmd_part2) + 1
    IN  IF numbytes # resp.actual_length THEN 1 ELSE 0

(***************************************************************************)
(* USB_write_IO                                                            *)
(***************************************************************************)
\* the three sub-commands of one relay, lines 111-121
RelayGroup(on) == IF on THEN <<32, 40, 32>> ELSE <<0, 8, 0>>

\* the relays walked from relay 1 up to relay 8
RECURSIVE MaskLoop_Ascending(_, _)
MaskLoop_Ascending(active, mask) ==
    IF mask > 0
    THEN MaskLoop_Ascending(active, (mask \div 2) % UINT8) \o RelayGroup(BitAnd(active, mask) # 0)
    ELSE <<>>

\* for (uint8_t mask = 128; mask > 0; mask >>= 1)
RECURSIVE MaskLoop(_, _)
MaskLoop(active, mask) ==
    IF mask > 0
    THEN RelayGroup(BitAnd(active, mask) # 0) \o MaskLoop(active, (mask \div 2) % UINT8)
    ELSE <<>>

\* the frame closed by a single sub-command
Program_NoFrameEndB(active) == <<0>> \o MaskLoop(active, 128) \o <<0>>

\* the sub-commands in the order lines 108-125 send them
Program(active) == <<0>> \o MaskLoop(active, 128) \o <<0, 1>>

ProgramLen == Len(Program(0))

\* the return values are looked at only after the last send
RECURSIVE SendAll_NoAbort(_, _, _)
SendAll_NoAbort(cmds, resp, k) ==
    IF k > Len(cmds)
    THEN [n |-> Len(cmds), err |-> \E j \in 1..Len(cmds) : send_relay_cmd(cmds[j], resp[j]) # 0]
    ELSE SendAll_NoAbort(cmds, resp, k + 1)

\* every send is followed by "goto error" on a non-zero return:
\* n transfers are attempted, err tells whether the last one jumped to error
RECURSIVE SendAll(_, _, _)
SendAll(cmds, resp, k) ==
    IF k > Len(cmds) THEN [n |-> Len(cmds), err |-> FALSE]
    ELSE IF send_relay_cmd(cmds[k], resp[k]) # 0 THEN [n |-> k, err |-> TRUE]
    ELSE SendAll(cmds, resp, k + 1)

\* what the ProgramLen transfers of one call would report, were they all made:
\* success throughout, one transfer that reports something else (a glitch), or
\* every transfer from some point on (the device is gone)
AllOk == [k \in 1..ProgramLen |-> OkResp]

FaultAt(at, bad) == [k \in 1..ProgramLen |-> IF k = at THEN bad ELSE OkResp]

FaultFrom(at, bad) == [k \in 1..ProgramLen |-> IF k >= at THEN bad ELSE OkResp]

Responses ==
    {AllOk}
    \cup { FaultAt(at, bad) : at \in 1..ProgramLen, bad \in BadResps }
    \cup { FaultFrom(at, bad) : at \in 1..ProgramLen, bad \in BadResps }

\* USB_write_IO writing nothing when the requested bits are the recorded ones
USB_write_IO_SkipUnchanged(ret, responses) ==
    /\ applies' = applies + 1
    /\ IF device_handle = NULL
       THEN /\ pc' = "abort"
            /\ UNCHANGED <<outputbits, output_pending, device_handle, live, wire, resps, rv>>
       ELSE IF output_pending = 0 /\ outputbits = ToUint8(active_relays)
       THEN /\ wire' = <<>>
            /\ resps' = <<>>
            /\ rv' = 0
            /\ pc' = ret
            /\ UNCHANGED <<outputbits, output_pending, device_handle, live>>
       ELSE \E resp \in responses, cmds \in {Program(ToUint8(active_relays))} :
              \E r \in {SendAll(cmds, resp, 1)} :
                  /\ wire' = [k \in 1..r.n |-> TransferOf[cmds[k]]]
                  /\ resps' = SubSeq(resp, 1, r.n)
                  /\ IF r.err
                     THEN /\ live' = live \ {device_handle}
                          /\ device_handle' = NULL
                          /\ output_pending' = 1
                          /\ rv' = -1
                          /\ UNCHANGED outputbits
                     ELSE /\ output_pending' = 0
                          /\ outputbits' = ToUint8(active_relays)
                          /\ rv' = 0
                          /\ UNCHANGED <<device_handle, live>>
                  /\ pc' = ret

\* USB_write_IO recording the requested bits also when a transfer failed
USB_write_IO_StoreOnError(ret, responses) ==
    /\ applies' = applies + 1
    /\ IF device_handle = NULL
       THEN /\ pc' = "abort"
            /\ UNCHANGED <<outputbits, output_pending, device_handle, live, wire, resps, rv>>
       ELSE \E resp \in responses, cmds \in {Program(ToUint8(active_relays))} :
              \E r \in {SendAll(cmds, resp, 1)} :
                  /\ wire' = [k \in 1..r.n |-> TransferOf[cmds[k]]]
                  /\ resps' = SubSeq(resp, 1, r.n)
                  /\ outputbits' = ToUint8(active_relays)
                  /\ IF r.err
                     THEN /\ live' = live \ {device_handle}
                          /\ device_handle' = NULL
                          /\ output_pending' = 1
                          /\ rv' = -1
                     ELSE /\ output_pending' = 0
                          /\ rv' = 0
                          /\ UNCHANGED <<device_handle, live>>
                  /\ pc' = ret

\* the body of USB_write_IO; control continues at ret, or the assert aborts;
\* responses is what the transport may report during the call
USB_write_IO(ret, responses) ==
    /\ applies' = applies + 1
    /\ IF device_handle = NULL
       THEN /\ pc' = "abort"
            /\ UNCHANGED <<outputbits, output_pending, device_handle, live, wire, resps, rv>>
       ELSE \E resp \in responses, cmds \in {Program(ToUint8(active_relays))} :
              \E r \in {SendAll(cmds, resp, 1)} :
                  /\ wire' = [k \in 1..r.n |-> TransferOf[cmds[k]]]
                  /\ resps' = SubSeq(resp, 1, r.n)
                  /\ IF r.err
                     THEN /\ live' = live \ {device_handle}
                          /\ device_handle' = NULL
                          /\ output_pending' = 1
                          /\ rv' = -1
                          /\ UNCHANGED outputbits
                     ELSE /\ output_pending' = 0
                          /\ outputbits' = ToUint8(active_relays)
                          /\ rv' = 0
                          /\ UNCHANGED <<device_handle, live>>
                  /\ pc' = ret

(***************************************************************************)
(* SpecApply: USB_write_IO on an open device, called once and once again    *)
(***************************************************************************)
\* bits 8..31 of the accumulator at the call
HighBits == { {}, {8}, {31} }

NoEvents ==
    /\ batch = <<>>
    /\ length = 0
    /\ i = 0
    /\ pre_batch = {}
    /\ scanned = {}
    /\ rounds = 0
    /\ tries = 0

NoArguments ==
    /\ argv = <<>>
    /\ rc = 0

NoTransfers ==
    /\ wire = <<>>
    /\ resps = <<>>
    /\ rv = 0

OpenDevice ==
    /\ device_handle = 1
    /\ usb_context = 1
    /\ live = {1}
    /\ nhandles = 1

InitApply ==
    /\ pc = "w_call"
    /\ active_relays \in { lo \cup hi : lo \in SUBSET (0..7), hi \in HighBits }
    /\ outputbits \in {0, 255}
    /\ output_pending = 1
    /\ OpenDevice
    /\ NoTransfers
    /\ NoArguments
    /\ NoEvents
    /\ cmd = 0
    /\ applies = 0

ApplyCall ==
    /\ pc = "w_call"
    /\ USB_write_IO("w_done", Responses)
    /\ UNCHANGED <<argv, rc, active_relays, usb_context, nhandles, cmd, batch, length, i,
                   pre_batch, scanned, rounds, tries>>

\* a second call with the same active_relays, after a first one that the
\* transport carried out without a fault
ApplyAgain ==
    /\ pc = "w_done"
    /\ rv = 0
    /\ resps = AllOk
    /\ USB_write_IO("w_again", {AllOk} \cup { FaultAt(at, bad) : at \in {1, ProgramLen}, bad \in BadResps })
    /\ UNCHANGED <<argv, rc, active_relays, usb_context, nhandles, cmd, batch, length, i,
                   pre_batch, scanned, rounds, tries>>

NextApply == ApplyCall \/ ApplyAgain

SpecApply == InitApply /\ [][NextApply]_vars

(***************************************************************************)
(* SpecEncode: one call of send_relay_cmd                                  *)
(***************************************************************************)
InitEncode ==
    /\ pc = "e_call"
    /\ cmd \in 0..(UINT8 - 1)
    /\ active_relays = {}
    /\ outputbits = 0
    /\ output_pending = 1
    /\ OpenDevice
    /\ NoTransfers
    /\ NoArguments
    /\ NoEvents
    /\ applies = 0

EncodeCall ==
    /\ pc = "e_call"
    /\ \E resp \in {OkResp} \cup BadResps :
          /\ wire' = <<TransferOf[cmd]>>
          /\ resps' = <<resp>>
          /\ rv' = send_relay_cmd(cmd, resp)
    /\ pc' = "e_done"
    /\ UNCHANGED <<argv, rc, active_relays, outputbits, output_pending, device_handle, usb_context,
                   live, nhandles, cmd, batch, length, i, pre_batch,
                   scanned, rounds, applies, tries>>

NextEncode == EncodeCall

SpecEncode == InitEncode /\ [][NextEncode]_vars

(***************************************************************************)
(* sscanf(event->name, "D_OUT_%d", &pin)                                   *)
(*                                                                         *)
(* A name is a sequence of characters.  The result is the value sscanf     *)
(* returns (EOF is -1) and pin, which is initialised to 0 and written      *)
(* only by a completed conversion.                                         *)
(***************************************************************************)
EOF == -1

Pattern == <<"D", "_", "O", "U", "T", "_">>

DigitValue ==
    [c \in {"0", "1", "2", "3", "4", "5", "6", "7", "8", "9"} |->
        CASE c = "0" -> 0 [] c = "1" -> 1 [] c = "2" -> 2 [] c = "3" -> 3 [] c = "4" -> 4
          [] c = "5" -> 5 [] c = "6" -> 6 [] c = "7" -> 7 [] c = "8" -> 8 [] c = "9" -> 9]

IsDigit(c) == c \in DOMAIN DigitValue

\* the longest run of digits of name from position k on, as a number
RECURSIVE ScanDigits(_, _, _)
ScanDigits(name, k, acc) ==
    IF k <= Len(name) /\ IsDigit(name[k])
    THEN ScanDigits(name, k + 1, 10 * acc + DigitValue[name[k]])
    ELSE acc

\* the %d directive at position k: white space is skipped, then an optional
\* sign and at least one digit are wanted
RECURSIVE ScanInt(_, _)
ScanInt(name, k) ==
    IF k > Len(name) THEN [ret |-> EOF, pin |-> 0]
    ELSE IF name[k] = " " THEN ScanInt(name, k + 1)
    ELSE LET signed == name[k] \in {"+", "-"}
             d      == IF signed THEN k + 1 ELSE k
         IN  IF d <= Len(name) /\ IsDigit(name[d])
             THEN [ret |-> 1,
                   pin |-> IF name[k] = "-" THEN 0 - ScanDigits(name, d, 0)
                           ELSE ScanDigits(name, d, 0)]
             ELSE [ret |-> 0, pin |-> 0]

\* the ordinary characters of the format, then the directive: input that ends
\* before the first conversion makes sscanf return EOF, a character that
\* differs makes it return 0
RECURSIVE Sscanf(_, _)
Sscanf(name, k) ==
    IF k > Len(Pattern) THEN ScanInt(name, k)
    ELSE IF k > Len(name) THEN [ret |-> EOF, pin |-> 0]
    ELSE IF name[k] # Pattern[k] THEN [ret |-> 0, pin |-> 0]
    ELSE Sscanf(name, k + 1)

(***************************************************************************)
(* Folding one inotify event into active_relays, lines 319-355             *)
(***************************************************************************)
\* 1 << k for the int 1.  The shift is defined for k in 0..30 and gives bit
\* 31 for k = 31 on every two's complement build; for any other k it is
\* undefined: the processors take the count modulo the word size or shift
\* the bit out.
ShiftLeftOne(k) ==
    IF k \in 0..(WordBits - 1) THEN { {k} }
    ELSE { {k % WordBits}, {} }

\* every value active_relays can have after the event
FoldEvent(active, event) ==
    IF Len(event.name) = 0 THEN {active}
    ELSE IF "IN_CREATE" \in event.mask
    THEN IF "IN_ISDIR" \in event.mask THEN {active}
         ELSE IF Sscanf(event.name, 1).ret # 0
              THEN { active \cup bit : bit \in ShiftLeftOne(Sscanf(event.name, 1).pin - 1) }
              ELSE {active}
    ELSE IF "IN_DELETE" \in event.mask
    THEN IF "IN_ISDIR" \in event.mask THEN {active}
         ELSE IF Sscanf(event.name, 1).ret # 0
              THEN { active \ bit : bit \in ShiftLeftOne(Sscanf(event.name, 1).pin - 1) }
              ELSE {active}
    ELSE {active}

(***************************************************************************)
(* USB_open_device                                                         *)
(***************************************************************************)
\* control continues at ok when USB_open_device returns 0 and at failed when
\* it returns -1; only_ok leaves out the ways it can fail
USB_open_device(ok, failed, only_ok) ==
    IF device_handle # NULL
    THEN /\ pc' = "abort"
         /\ UNCHANGED <<usb_context, device_handle, live, nhandles, output_pending, tries>>
    ELSE \/ /\ ~only_ok                  \* libusb_init fails
            /\ usb_context' = NULL
            /\ tries' = tries + 1
            /\ pc' = failed
            /\ UNCHANGED <<device_handle, live, nhandles, output_pending>>
         \/ /\ ~only_ok                  \* no device list, or no device with the ids
            /\ usb_context' = 1
            /\ tries' = tries + 1
            /\ pc' = failed
            /\ UNCHANGED <<device_handle, live, nhandles, output_pending>>
         \/ /\ ~only_ok                  \* the interface cannot be claimed
            /\ usb_context' = 1
            /\ nhandles' = nhandles + 1
            /\ live' = live \cup {nhandles + 1}
            /\ device_handle' = NULL
            /\ output_pending' = 1
            /\ tries' = tries + 1
            /\ pc' = failed
         \/ /\ usb_context' = 1          \* success
            /\ nhandles' = nhandles + 1
            /\ live' = live \cup {nhandles + 1}
            /\ device_handle' = nhandles + 1
            /\ output_pending' = 1
            /\ tries' = 0
            /\ pc' = ok

(***************************************************************************)
(* run_as_daemon                                                           *)
(***************************************************************************)
\* the marker file of relay n
MarkerFile(n) ==
    Pattern \o << CASE n = 1 -> "1" [] n = 2 -> "2" [] n = 3 -> "3" [] n = 4 -> "4"
                    [] n = 5 -> "5" [] n = 6 -> "6" [] n = 7 -> "7" [] n = 8 -> "8" >>

\* what the transport may report to the daemon during one USB_write_IO: success,
\* or the device unplugged before the first transfer, before the transfer of
\* the sub-command at index 14, or before the last one
DaemonResponses ==
    {AllOk} \cup { FaultFrom(at, [status |-> -4, actual_length |-> 0]) : at \in {1, 15, ProgramLen} }

\* the events the watch delivers to the daemon
DaemonEvents ==
    { [mask |-> {m}, name |-> MarkerFile(n)] : m \in {"IN_CREATE", "IN_DELETE"}, n \in {3, 7} }
    \cup { [mask |-> {"IN_CREATE", "IN_ISDIR"}, name |-> MarkerFile(3)],
           [mask |-> {"IN_DELETE_SELF"}, name |-> <<>>] }

RECURSIVE SeqsUpTo(_, _)
SeqsUpTo(S, n) ==
    IF n = 0 THEN { <<>> }
    ELSE LET shorter == SeqsUpTo(S, n - 1)
         IN  shorter \cup { Append(b, e) : b \in { x \in shorter : Len(x) = n - 1 }, e \in S }

\* what one read() can return: at least one event
DaemonBatches == { b \in SeqsUpTo(DaemonEvents, MaxBatch) : Len(b) >= 1 }

\* relaybits after the loop of lines 290-297, started at pin n
RECURSIVE ScanLoop(_, _)
ScanLoop(files, n) ==
    IF n # LAST_PIN
    THEN (IF n \in files THEN {n - 1} ELSE {}) \cup ScanLoop(files, n + 1)
    ELSE {}

InitDaemon ==
    /\ pc = "d_open"
    /\ active_relays = {}
    /\ outputbits = 0
    /\ output_pending = 0
    /\ device_handle = NULL
    /\ usb_context = NULL
    /\ live = {}
    /\ nhandles = 0
    /\ NoTransfers
    /\ NoArguments
    /\ NoEvents
    /\ cmd = 0
    /\ applies = 0

\* the connect loop left after the first USB_open_device, whatever it returned
Connect_ProceedOnFailure ==
    /\ pc = "d_open"
    /\ USB_open_device("d_scan", "d_scan", tries >= MaxTries)
    /\ UNCHANGED <<argv, rc, active_relays, outputbits, wire, resps, rv, cmd, batch, length, i,
                   pre_batch, scanned, rounds, applies>>

\* lines 256-263: one turn of the connect loop (with its sleep when the open fails)
Connect ==
    /\ pc = "d_open"
    /\ USB_open_device("d_scan", "d_open", tries >= MaxTries)
    /\ UNCHANGED <<argv, rc, active_relays, outputbits, wire, resps, rv, cmd, batch, length, i,
                   pre_batch, scanned, rounds, applies>>

\* lines 284-299: the initial scan
Scan ==
    /\ pc = "d_scan"
    /\ \E files \in { f \in SUBSET (FIRST_PIN..LAST_PIN) : Cardinality(f) <= MaxFiles } :
          /\ scanned' = files
          /\ active_relays' = ScanLoop(files, FIRST_PIN)
    /\ pc' = "d_apply"
    /\ UNCHANGED <<argv, rc, outputbits, output_pending, device_handle, usb_context, live, nhandles,
                   wire, resps, rv, cmd, batch, length, i, pre_batch, rounds, applies, tries>>

\* line 300: the first USB_write_IO
InitialApply ==
    /\ pc = "d_apply"
    /\ USB_write_IO("d_read", DaemonResponses)
    /\ UNCHANGED <<argv, rc, active_relays, usb_context, nhandles, cmd, batch, length, i, pre_batch, scanned,
                   rounds, tries>>

\* line 305: read() returns a batch of events, or fails
Read ==
    /\ pc = "d_read"
    /\ rounds < MaxRounds
    /\ \/ \E b \in DaemonBatches : batch' = b /\ length' = Len(b)
       \/ batch' = <<>> /\ length' = -1
    /\ i' = 0
    /\ pre_batch' = active_relays
    /\ rounds' = rounds + 1
    /\ applies' = 0
    /\ wire' = <<>>
    /\ resps' = <<>>
    /\ rv' = 0
    /\ pc' = "d_fold"
    /\ UNCHANGED <<argv, rc, active_relays, outputbits, output_pending, device_handle, usb_context,
                   live, nhandles, cmd, scanned, tries>>

\* USB_write_IO called in the loop over the events, once per event
Fold_ApplyPerEvent ==
    /\ pc = "d_fold"
    /\ i < length
    /\ active_relays' \in FoldEvent(active_relays, batch[i + 1])
    /\ i' = i + 1
    /\ USB_write_IO("d_fold", DaemonResponses)
    /\ UNCHANGED <<argv, rc, usb_context, nhandles, cmd, batch, length, pre_batch, scanned,
                   rounds, tries>>

\* lines 316-357: one turn of the loop over the events of the batch
Fold ==
    /\ pc = "d_fold"
    /\ i < length
    /\ active_relays' \in FoldEvent(active_relays, batch[i + 1])
    /\ i' = i + 1
    /\ UNCHANGED <<argv, rc, pc, outputbits, output_pending, device_handle, usb_context, live,
                   nhandles, wire, resps, rv, cmd, batch, length, pre_batch, scanned,
                   rounds, applies, tries>>

\* line 359: the USB_write_IO after the batch.  Nothing reads the events of
\* the buffer again (the next read() overwrites them, and after a failed read()
\* the loop over them is not entered), so they are forgotten here.
LoopApply ==
    /\ pc = "d_fold"
    /\ ~(i < length)
    /\ USB_write_IO("d_read", DaemonResponses)
    /\ batch' = <<>>
    /\ pre_batch' = {}
    /\ UNCHANGED <<argv, rc, active_relays, usb_context, nhandles, cmd, length, i, scanned, rounds, tries>>

Next == Connect \/ Scan \/ InitialApply \/ Read \/ Fold \/ LoopApply

Spec == InitDaemon /\ [][Next]_vars

\* The daemon is the only thread and nothing in the code before the first
\* read() blocks for ever: sleep(1) returns, stat() returns, every bulk transfer
\* returns within its 100 ms timeout.  The device is there for good after at
\* most MaxTries failed opens.
SpecLive ==
    /\ Spec
    /\ WF_vars(Connect)
    /\ WF_vars(Scan)
    /\ WF_vars(InitialApply)

(***************************************************************************)
(* SpecFold: the loop of lines 316-357 over one batch                      *)
(***************************************************************************)
\* names of files created and deleted in the event directory
FoldNames ==
    { MarkerFile(3), MarkerFile(7), MarkerFile(8),
      Pattern \o <<"9">>, Pattern \o <<"3", "3">>, Pattern \o <<"0">>,
      Pattern \o <<"0", "3">>, Pattern \o <<"3", "x">>,
      Pattern, <<"D", "_", "O", "U">>, <<"a", "b", "c">> }

FoldEvents ==
    { [mask |-> {m}, name |-> nm] : m \in {"IN_CREATE", "IN_DELETE"}, nm \in FoldNames }
    \cup { [mask |-> {m, "IN_ISDIR"}, name |-> MarkerFile(3)] : m \in {"IN_CREATE", "IN_DELETE"} }
    \cup { [mask |-> {"IN_MODIFY"}, name |-> MarkerFile(7)],
           [mask |-> {"IN_DELETE_SELF"}, name |-> <<>>] }

\* active_relays when read() returns
FoldStarts == { {}, {2, 6}, 0..7 }

InitFold ==
    /\ pc = "d_fold"
    /\ active_relays \in FoldStarts
    /\ pre_batch = active_relays
    /\ batch \in { b \in SeqsUpTo(FoldEvents, MaxFoldBatch) : Len(b) >= 1 }
    /\ length = Len(batch)
    /\ i = 0
    /\ outputbits = ToUint8(active_relays)
    /\ output_pending = 0
    /\ OpenDevice
    /\ NoTransfers
    /\ NoArguments
    /\ scanned = {}
    /\ rounds = 1
    /\ tries = 0
    /\ cmd = 0
    /\ applies = 0

NextFold == Fold

SpecFold == InitFold /\ [][NextFold]_vars

(***************************************************************************)
(* SpecOnce: run_once, the relays to switch on given as arguments          *)
(***************************************************************************)
\* arguments given on the command line
MaxArgs == 3

\* atoi: the number an argument starts with, 0 when it starts with none
Atoi(s) == IF ScanInt(s, 1).ret = 1 THEN ScanInt(s, 1).pin ELSE 0

\* what an argument can be
OnceArgs == { <<"1">>, <<"5">>, <<"7">>, <<"8">>, <<"9">>, <<"0">>, <<"x">> }

\* the loop over the arguments setting bit relay instead of bit relay - 1
RECURSIVE CheckArgs_NoOffset(_, _, _)
CheckArgs_NoOffset(args, k, active) ==
    IF k > Len(args) THEN [rc |-> 0, active_relays |-> active]
    ELSE LET relay == Atoi(args[k])
         IN  IF relay < FIRST_PIN \/ relay > LAST_PIN
             THEN [rc |-> 2, active_relays |-> active]
             ELSE CheckArgs_NoOffset(args, k + 1, active \cup {relay})

\* the loop over the arguments looking at the first argument only
RECURSIVE CheckArgs_FirstOnly(_, _, _)
CheckArgs_FirstOnly(args, k, active) ==
    IF k > Len(args) THEN [rc |-> 0, active_relays |-> active]
    ELSE LET relay == Atoi(args[k])
         IN  IF k = 1 /\ (relay < FIRST_PIN \/ relay > LAST_PIN)
             THEN [rc |-> 2, active_relays |-> active]
             ELSE CheckArgs_FirstOnly(args, k + 1, active \cup {(relay - 1) % WordBits})

\* lines 225-234, the loop over the arguments from argument k on: rc is 2 when
\* the loop returns, 0 when it ends
RECURSIVE CheckArgs(_, _, _)
CheckArgs(args, k, active) ==
    IF k > Len(args) THEN [rc |-> 0, active_relays |-> active]
    ELSE LET relay == Atoi(args[k])
         IN  IF relay < FIRST_PIN \/ relay > LAST_PIN
             THEN [rc |-> 2, active_relays |-> active]
             ELSE CheckArgs(args, k + 1, active \cup {relay - 1})

InitOnce ==
    /\ pc = "o_args"
    /\ argv \in SeqsUpTo(OnceArgs, MaxArgs)
    /\ rc = 0
    /\ active_relays = {}
    /\ outputbits = 0
    /\ output_pending = 0
    /\ device_handle = NULL
    /\ usb_context = NULL
    /\ live = {}
    /\ nhandles = 0
    /\ NoTransfers
    /\ NoEvents
    /\ cmd = 0
    /\ applies = 0

\* lines 225-234
ParseArgs ==
    /\ pc = "o_args"
    /\ \E r \in {CheckArgs(argv, 1, active_relays)} :
          /\ active_relays' = r.active_relays
          /\ rc' = r.rc
          /\ pc' = IF r.rc = 2 THEN "o_exit" ELSE "o_open"
    /\ UNCHANGED <<argv, outputbits, output_pending, device_handle, usb_context, live,
                   nhandles, wire, resps, rv, cmd, batch, length, i, pre_batch, scanned,
                   rounds, applies, tries>>

\* line 238: the one USB_open_device
OnceOpen ==
    /\ pc = "o_open"
    /\ USB_open_device("o_write", "o_fail", FALSE)
    /\ UNCHANGED <<argv, rc, active_relays, outputbits, wire, resps, rv, cmd, batch, length,
                   i, pre_batch, scanned, rounds, applies>>

\* lines 241-244: USB_open_device returned -1
OnceFail ==
    /\ pc = "o_fail"
    /\ rc' = 3
    /\ pc' = "o_exit"
    /\ UNCHANGED <<argv, active_relays, outputbits, output_pending, device_handle,
                   usb_context, live, nhandles, wire, resps, rv, cmd, batch, length, i,
                   pre_batch, scanned, rounds, applies, tries>>

\* line 239: USB_write_IO, its return value dropped
OnceWrite ==
    /\ pc = "o_write"
    /\ USB_write_IO("o_close", Responses)
    /\ UNCHANGED <<argv, rc, active_relays, usb_context, nhandles, cmd, batch, length, i,
                   pre_batch, scanned, rounds, tries>>

\* line 240 and USB_close_device (lines 209-219), then return 0 (line 245)
OnceClose ==
    /\ pc = "o_close"
    /\ IF usb_context = NULL
       THEN /\ pc' = "abort"
            /\ UNCHANGED <<live, rc>>
       ELSE /\ live' = live \ {device_handle}
            /\ rc' = 0
            /\ pc' = "o_exit"
    /\ UNCHANGED <<argv, active_relays, outputbits, output_pending, device_handle,
                   usb_context, nhandles, wire, resps, rv, cmd, batch, length, i,
                   pre_batch, scanned, rounds, applies, tries>>

NextOnce == ParseArgs \/ OnceOpen \/ OnceFail \/ OnceWrite \/ OnceClose

SpecOnce == InitOnce /\ [][NextOnce]_vars

(***************************************************************************)
(* Properties                                                              *)
(***************************************************************************)
\* the sub-command byte of a transfer handed to the transport
SubCommand(x) == x.data[6]

\* positions of the transfers of the last call that did not report 11 bytes
ShortWrites == { k \in 1..Len(resps) : resps[k].actual_length # 11 }

\* C3: when a transfer of a USB_write_IO call reports a byte count other than
\* 11, the first such transfer is the last one attempted (k + 1 transfers for
\* the sub-command at index k), the handle is closed and forgotten, and the
\* call returns an error.
C3_FailFast ==
    (pc = "w_done" /\ ShortWrites # {}) =>
        \E k \in ShortWrites :
            /\ \A j \in ShortWrites : k <= j
            /\ Len(wire) = k
            /\ Len(resps) = k
            /\ device_handle = NULL
            /\ live = {}
            /\ rv = -1

C3_Witness ==
    /\ pc = "w_done"
    /\ ShortWrites = {15}
    /\ Len(wire) = 15
    /\ device_handle = NULL
    /\ rv = -1

\* C4: in a successful USB_write_IO the group g (g = 0..7) of three
\* sub-commands after FRAME_START is 0x20,0x28,0x20 when bit 7-g of the mask
\* is set and 0x00,0x08,0x00 when it is clear: relay 8 first, relay 1 last.
C4_DescendingGroups ==
    (pc = "w_done" /\ rv = 0) =>
        \A g \in 0..7 :
            <<SubCommand(wire[3 * g + 2]), SubCommand(wire[3 * g + 3]), SubCommand(wire[3 * g + 4])>>
                = IF (7 - g) \in active_relays THEN <<32, 40, 32>> ELSE <<0, 8, 0>>

C4_Witness ==
    /\ pc = "w_done"
    /\ rv = 0
    /\ active_relays = {0, 4, 6}
    /\ SubCommand(wire[5]) = 32
    /\ SubCommand(wire[2]) = 0

\* C5: a successful USB_write_IO hands over exactly 27 transfers, the first
\* with sub-command 0x00 and the last two with 0x00 and 0x01, whatever the
\* bits 8..31 of the accumulator are.
C5_FrameShape ==
    (pc = "w_done" /\ rv = 0) =>
        /\ Len(wire) = 27
        /\ SubCommand(wire[1]) = 0
        /\ SubCommand(wire[26]) = 0
        /\ SubCommand(wire[27]) = 1

C5_Witness ==
    /\ pc = "w_done"
    /\ rv = 0
    /\ active_relays = {0, 2, 8}
    /\ Len(wire) = 27

\* C6: the transfer send_relay_cmd hands over for sub-command x is the 11
\* bytes A1 6A 1F 00 10 x 3F 00 00 00 00, to endpoint 2.
C6_FrameBytes ==
    (pc = "e_done") =>
        /\ Len(wire) = 1
        /\ wire[1].endpoint = 2
        /\ wire[1].data = <<161, 106, 31, 0, 16, cmd, 63, 0, 0, 0, 0>>

C6_Witness ==
    /\ pc = "e_done"
    /\ cmd = 40
    /\ Len(wire[1].data) = 11

\* C1: in the daemon, a USB_write_IO that fails (the handle goes from open to
\* NULL) sends the daemon back to the connect loop, so that the device is
\* opened again before the next USB_write_IO.
C1_ReconnectAfterFailure ==
    [][(pc \in {"d_apply", "d_fold"} /\ device_handle # NULL /\ device_handle' = NULL)
            => pc' = "d_open"]_vars

\* C2: no run of the daemon ends in a failed assertion.
C2_NoAssertionFailure == pc # "abort"

\* C7: between two read() calls of the event loop exactly one USB_write_IO is
\* issued: none while events of the batch are still to be walked over, and
\* one, after the last event, before the daemon waits again.
C7_OneApplyPerBatch ==
    /\ [](pc = "d_fold" => applies = 0)
    /\ []((pc \in {"d_read", "abort"} /\ rounds > 0) => applies = 1)
    /\ [][(pc = "d_fold" /\ applies' # applies) => (i = length \/ length < 0)]_vars

C7_Witness ==
    /\ pc = "d_read"
    /\ rounds = 2
    /\ length = 2
    /\ i = 2
    /\ applies = 1
    /\ Len(wire) = 27

\* the name D_OUT_<n> of the marker file of relay n
NameOfRelay(n) ==
    <<"D", "_", "O", "U", "T", "_">> \o
        << [d \in 1..8 |-> CASE d = 1 -> "1" [] d = 2 -> "2" [] d = 3 -> "3" [] d = 4 -> "4"
                             [] d = 5 -> "5" [] d = 6 -> "6" [] d = 7 -> "7" [] d = 8 -> "8"][n] >>

\* positions in the batch of the create and delete events of the file D_OUT_<n>
EventsOfRelay(n) ==
    { j \in 1..Len(batch) :
        /\ batch[j].name = NameOfRelay(n)
        /\ batch[j].mask \in { {"IN_CREATE"}, {"IN_DELETE"} } }

Last(S) == CHOOSE j \in S : \A k \in S : k <= j

BatchFolded == pc = "d_fold" /\ length >= 1 /\ i = length /\ applies = 0

\* C8: once a batch is folded, bit n-1 of the accumulator is 1 if the last
\* event of the file D_OUT_<n> in the batch is a create, 0 if it is a delete,
\* and what it was before the batch if the batch has no event of that file.
C8_LastEventWins ==
    BatchFolded =>
        \A n \in 1..8 :
            IF EventsOfRelay(n) = {}
            THEN ((n - 1) \in active_relays) <=> ((n - 1) \in pre_batch)
            ELSE ((n - 1) \in active_relays) <=> (batch[Last(EventsOfRelay(n))].mask = {"IN_CREATE"})

\* C9: the first USB_write_IO of the daemon energizes relay n (its group of
\* three sub-commands is 0x20,0x28,0x20) exactly when D_OUT_<n> existed at
\* the initial scan, for every n in 1..8.
C9_FirstApplySeeded ==
    (pc = "d_read" /\ rounds = 0 /\ rv = 0 /\ Len(wire) = 27) =>
        \A n \in 1..8 : (SubCommand(wire[3 * (8 - n) + 2]) = 32) <=> (n \in scanned)

\* names D_OUT_<n> with n outside 1..8
OutOfRangeNames ==
    { <<"D", "_", "O", "U", "T", "_", "9">>,
      <<"D", "_", "O", "U", "T", "_", "0">>,
      <<"D", "_", "O", "U", "T", "_", "3", "3">> }

\* C10: a batch of create and delete events of files D_OUT_<n> with n outside
\* 1..8 leaves bits 0..7 of the accumulator as they were.
C10_OutOfRangeIgnored ==
    (BatchFolded /\ \A j \in 1..Len(batch) : batch[j].name \in OutOfRangeNames) =>
        active_relays \cap (0..7) = pre_batch \cap (0..7)

\* C11: at most one handle is open (opened and not yet closed) at any time.
C11_AtMostOneSession == Cardinality(live) <= 1

\* C12: in the connect loop nothing has been scanned or written yet, a failed
\* USB_open_device leaves the daemon in the loop, the loop is left only with
\* an open handle, and once the device stays available the daemon gets to the
\* initial scan and through the first USB_write_IO.
C12_ConnectRetries ==
    /\ [](pc = "d_open" => (Len(wire) = 0 /\ applies = 0 /\ rounds = 0 /\ device_handle = NULL))
    /\ [][pc = "d_open" =>
            /\ pc' \in {"d_open", "d_scan"}
            /\ (pc' = "d_scan" <=> device_handle' # NULL)
            /\ (pc' = "d_scan" => device_handle' \in live')]_vars
    /\ <>(pc = "d_read" /\ applies = 1)

C12_Witness ==
    /\ pc = "d_read"
    /\ rounds = 0
    /\ nhandles = 2
    /\ device_handle = 2
    /\ Len(wire) = 27

\* C13: after a read() that failed the daemon issues no USB_write_IO on the
\* state it has: its next step is back in the connect loop.
C13_ReadErrorResyncs ==
    [][(pc = "d_fold" /\ length < 0) => pc' = "d_open"]_vars

\* C18: a transfer of a USB_write_IO call for which libusb_bulk_transfer
\* returned a non-zero status is the last one attempted, whatever byte count
\* it reported: the call returns -1 and the handle is closed and forgotten.
C18_StatusIsFailure ==
    pc = "w_done" =>
        \A k \in 1..Len(resps) :
            resps[k].status # 0 =>
                /\ k = Len(resps)
                /\ rv = -1
                /\ device_handle = NULL
                /\ live = {}

\* names that are not D_OUT_<n>: no digit after the prefix, a shorter prefix,
\* something else
NotMarkerNames ==
    { <<"D", "_", "O", "U", "T", "_">>,
      <<"D", "_", "O", "U">>,
      <<"a", "b", "c">> }

\* C19: a batch of create and delete events of directories and of files
\* whose name is not D_OUT_<n> leaves the accumulator as it was.
C19_OtherNamesIgnored ==
    (/\ BatchFolded
     /\ \A j \in 1..Len(batch) :
            /\ batch[j].mask \cap {"IN_CREATE", "IN_DELETE"} # {}
            /\ ("IN_ISDIR" \in batch[j].mask \/ batch[j].name \in NotMarkerNames)) =>
        active_relays = pre_batch

\* the value of bits 0..7 of a word
LowByte(w) ==
    (IF 0 \in w THEN 1 ELSE 0) + (IF 1 \in w THEN 2 ELSE 0)
    + (IF 2 \in w THEN 4 ELSE 0) + (IF 3 \in w THEN 8 ELSE 0)
    + (IF 4 \in w THEN 16 ELSE 0) + (IF 5 \in w THEN 32 ELSE 0)
    + (IF 6 \in w THEN 64 ELSE 0) + (IF 7 \in w THEN 128 ELSE 0)

\* C20: when the daemon is about to block in read() with an open handle,
\* outputbits is the low byte of active_relays and output_pending is 0; a
\* USB_write_IO that gives up the handle leaves outputbits as it was.
C20_OutputsInSync ==
    /\ []((pc = "d_read" /\ device_handle # NULL) =>
            (outputbits = LowByte(active_relays) /\ output_pending = 0))
    /\ [][(device_handle # NULL /\ device_handle' = NULL /\ applies' # applies) =>
            outputbits' = outputbits]_vars

C20_Witness ==
    /\ pc = "d_read"
    /\ rounds = 2
    /\ device_handle # NULL
    /\ active_relays = {2, 6}
    /\ outputbits = 68
    /\ output_pending = 0

\* the argument that is the relay number n
RelayArg(n) ==
    << CASE n = 0 -> "0" [] n = 1 -> "1" [] n = 2 -> "2" [] n = 3 -> "3" [] n = 4 -> "4"
         [] n = 5 -> "5" [] n = 6 -> "6" [] n = 7 -> "7" [] n = 8 -> "8" [] n = 9 -> "9" >>

\* every argument is a relay number of 1..8
ArgsInRange == \A k \in 1..Len(argv) : \E n \in 1..8 : argv[k] = RelayArg(n)

\* relay n is among the arguments
Wanted(n) == \E k \in 1..Len(argv) : argv[k] = RelayArg(n)

\* run_once with relay numbers of 1..8 as arguments: once the arguments are
\* read, bit n-1 of the mask is set exactly when n is an argument; the device
\* is opened at most once, USB_open_device is not called again after it
\* failed, and when it succeeded USB_write_IO is called exactly once and every
\* relay group it sends is the on group exactly for the relays given.
OnceRules ==
    ArgsInRange =>
        /\ pc # "o_args" =>
              /\ active_relays \subseteq 0..7
              /\ \A n \in 1..8 : ((n - 1) \in active_relays) <=> Wanted(n)
        /\ nhandles <= 1
        /\ tries <= 1
        /\ tries = 1 => pc \in {"o_fail", "o_exit"}
        /\ (pc = "o_fail" \/ rc = 3) => (tries = 1 /\ applies = 0 /\ Len(wire) = 0)
        /\ pc \in {"o_args", "o_open", "o_write"} => applies = 0
        /\ pc = "o_close" \/ (pc = "o_exit" /\ rc = 0) =>
              /\ applies = 1
              /\ nhandles = 1
              /\ tries = 0
              /\ Len(wire) >= 1
              /\ \A n \in 1..8 :
                    3 * (8 - n) + 2 <= Len(wire) =>
                        ((SubCommand(wire[3 * (8 - n) + 2]) = 32) <=> Wanted(n))
              /\ rv = 0 => (Len(wire) = 27 /\ outputbits = LowByte(active_relays))

\* the arguments 1 5 7 have been read
OneFiveSeven == argv = <<RelayArg(1), RelayArg(5), RelayArg(7)>> /\ pc # "o_args"

\* C14 as stated: the rules of run_once above, and the arguments 1 5 7 give
\* the mask 0b01000101 = 69.
C14_AsStated ==
    /\ OnceRules
    /\ OneFiveSeven => LowByte(active_relays) = 69

\* C14: the rules of run_once above, and the arguments 1 5 7 give the mask
\* 0b01010001 = 81 (bits 0, 4 and 6).
C14_OnceMask ==
    /\ OnceRules
    /\ OneFiveSeven => LowByte(active_relays) = 81

C14_Witness ==
    /\ pc = "o_exit"
    /\ argv = <<RelayArg(1), RelayArg(5), RelayArg(7)>>
    /\ rc = 0
    /\ rv = 0
    /\ applies = 1
    /\ outputbits = 81
    /\ Len(wire) = 27

\* the device was opened and the last USB_write_IO wrote all 27 sub-commands
AllWritten ==
    /\ nhandles = 1
    /\ applies = 1
    /\ rv = 0
    /\ Len(wire) = 27
    /\ \A k \in 1..27 : resps[k].actual_length = 11

\* C15: run_once returns 0 only when the device was opened and all 27
\* sub-commands were written; it returns 3 when USB_open_device failed.
C15_OnceExitCode ==
    pc = "o_exit" =>
        /\ rc = 0 => AllWritten
        /\ (device_handle = NULL /\ applies = 0 /\ tries = 1) => rc = 3

\* an argument is not a relay number of 1..8
ArgOutOfRange ==
    \E k \in 1..Len(argv) : argv[k] \in {RelayArg(9), RelayArg(0), <<"x">>}

\* C16: run_once with an argument outside 1..8, at any position, never opens
\* the device, writes to it or closes it, and returns 2.
C16_BadArgument ==
    ArgOutOfRange =>
        /\ pc \in {"o_args", "o_exit"}
        /\ pc = "o_exit" => rc = 2
        /\ nhandles = 0
        /\ tries = 0
        /\ applies = 0
        /\ Len(wire) = 0
        /\ usb_context = NULL
        /\ device_handle = NULL

C16_Witness ==
    /\ pc = "o_exit"
    /\ argv = <<RelayArg(1), RelayArg(5), RelayArg(9)>>
    /\ rc = 2
    /\ nhandles = 0

\* the sub-command at position k of the sequence for the word w: 0 first,
\* then for the relays 8 down to 1 the groups 0x20,0x28,0x20 (on) or
\* 0x00,0x08,0x00 (off), then 0 and 1
ExpectedSub(k, w) ==
    IF k = 1 \/ k = 26 THEN 0
    ELSE IF k = 27 THEN 1
    ELSE (IF (7 - ((k - 2) \div 3)) \in w THEN 32 ELSE 0) + (IF (k - 2) % 3 = 1 THEN 8 ELSE 0)

\* the last USB_write_IO handed the transport the whole sequence for active_relays
WholeProgram ==
    /\ Len(wire) = 27
    /\ \A k \in 1..27 :
          wire[k].data = <<161, 106, 31, 0, 16, ExpectedSub(k, active_relays), 63, 0, 0, 0, 0>>

\* C17: on a transport without faults a USB_write_IO writes the whole sequence
\* of 27 sub-commands for active_relays whatever outputbits was before, and a
\* second USB_write_IO with the same active_relays writes that whole sequence
\* again.
C17_ApplyStateless ==
    /\ (pc = "w_done" /\ resps = AllOk) => (WholeProgram /\ applies = 1)
    /\ (pc = "w_again" /\ resps = AllOk) => (WholeProgram /\ applies = 2)
    /\ pc = "w_again" => Len(wire) >= 1

C17_Witness ==
    /\ pc = "w_again"
    /\ applies = 2
    /\ resps = AllOk
    /\ active_relays = {0, 2, 6, 31}
    /\ outputbits = 69
    /\ Len(wire) = 27

====
